---- MODULE Spec2Model ----
(***************************************************************************)
(* A model of the OpenReview harvesting pipeline of src/main.py: the       *)
(* process start-up, the three stages fetch_papers, fetch_reviews and      *)
(* fetch_decisions, and the SQLAlchemy session over the three tables of    *)
(* src/models.py.  The source (OpenReview) and the store (SQLite) are the  *)
(* environment: every query, attachment download and storage operation     *)
(* may fail, and a query may return its notes or nothing.                  *)
(***************************************************************************)
EXTENDS Integers, Sequences, FiniteSets, TLC

(***************************************************************************)
(* Python values.  A value is a record tagged by k: None, a str, a list of *)
(* str, a dict with a "value" slot or a dict without one.  Raised stands   *)
(* for an exception propagating out of an expression.                      *)
(***************************************************************************)
PyNone == [k |-> "none"]

Str(s) == [k |-> "str", s |-> s]

List(l) == [k |-> "list", l |-> l]

Wrap(v) == [k |-> "dict", value |-> v]

EmptyDict == [k |-> "dict0"]

Raised == [k |-> "raise"]

\* bool(v): None, "", [] and {} are falsy.
Truthy(v) ==
    CASE v.k = "none" -> FALSE
      [] v.k = "str" -> v.s # ""
      [] v.k = "list" -> v.l # <<>>
      [] v.k = "dict0" -> FALSE
      [] OTHER -> TRUE

\* content.get(key, {}): the stored value, or {} when the key is absent.
ContentGet(content, key) ==
    IF key \in DOMAIN content THEN content[key] ELSE EmptyDict

\* x.get("value", default): only a dict has .get; on None or a str it raises
\* AttributeError.
GetValue(x, default) ==
    CASE x.k = "dict" -> x.value
      [] x.k = "dict0" -> default
      [] OTHER -> Raised

\* a or b, with an exception in a propagating.
OrElse(a, b) == IF a = Raised THEN Raised ELSE IF Truthy(a) THEN a ELSE b

\* content.get(key, {}).get("value", "") or default
StrField(content, key, default) ==
    OrElse(GetValue(ContentGet(content, key), Str("")), Str(default))

RECURSIVE JoinSeq(_)
\* ", ".join(l) for a list of str.
JoinSeq(l) ==
    IF l = <<>> THEN ""
    ELSE IF Len(l) = 1 THEN l[1]
    ELSE l[1] \o ", " \o JoinSeq(Tail(l))

\* ", ".join(v): v must be iterable; None raises TypeError.  A str of at most
\* one character joins to itself (the notes below hold no longer one here).
Join(v) ==
    CASE v = Raised -> Raised
      [] v.k = "list" -> Str(JoinSeq(v.l))
      [] v.k = "str" /\ Len(v.s) <= 1 -> v
      [] OTHER -> Raised

\* ", ".join(content.get("authors", {}).get("value", [])) or "Unknown"
AuthorsField(content) ==
    OrElse(Join(GetValue(ContentGet(content, "authors"), List(<<>>))), Str("Unknown"))

(***************************************************************************)
(* Bounds of the recorded runs.                                            *)
(***************************************************************************)
\* The runs of the script in a row that are recorded.
MaxRuns == 2

\* The storage operations that fail over the recorded runs.
MaxStoreFaults == 1

(***************************************************************************)
(* Configuration.                                                          *)
(***************************************************************************)
VENUE_ID == "EMNLP/2023/Conference"

PaperInvitations == <<"Submission", "Blind_Submission", "ARR_Commitment", "Direct_Submission">>

ReviewInvitations ==
    <<"Official_Review", "ARR_Review", "Review", "Public_Review", "Paper_Review",
      "Anonymous_Review">>

DecisionInvitations ==
    <<"Decision", "ARR_Decision", "Acceptance_Decision", "Program_Committee_Decision">>

\* Whether SQLite checks FOREIGN KEY constraints on this connection: it does so
\* only after PRAGMA foreign_keys=ON, which create_engine(DB_PATH, echo=False)
\* never issues.
ForeignKeysEnforced == FALSE

(***************************************************************************)
(* The notes the source can return.                                        *)
(***************************************************************************)
\* P1 as the Submission invitation shows it: complete, with a pdf.
NoteA ==
    [id |-> "P1", number |-> "1",
     content |-> [title |-> Wrap(Str("T1")), abstract |-> Wrap(Str("Abs1")),
                  authors |-> Wrap(List(<<"Ann", "Bob">>)), pdf |-> Wrap(Str("/pdf/P1"))]]

\* P1 again, as the Blind_Submission invitation shows it: no authors.
NoteA2 ==
    [id |-> "P1", number |-> "1",
     content |-> [title |-> Wrap(Str("T1 (blind)")), abstract |-> Wrap(Str("Abs1")),
                  pdf |-> Wrap(Str("/pdf/P1"))]]

\* P2: empty title, no abstract, empty author list, no pdf.
NoteB ==
    [id |-> "P2", number |-> "2",
     content |-> [title |-> Wrap(Str("")), authors |-> Wrap(List(<<>>))]]

\* P3: the title is a bare str instead of a {"value": ...} wrapper.
NoteM ==
    [id |-> "P3", number |-> "3",
     content |-> [title |-> Str("bare"), abstract |-> Wrap(Str("Abs3"))]]

\* R1 on P1: no "overall assessment", five content keys.
NoteR1 ==
    [id |-> "R1", forum |-> "P1", signatures |-> <<"Rev1">>, tcdate |-> 86400000,
     content |-> [review |-> Wrap(Str("good")), recommendation |-> Wrap(Str("4")),
                  overall_evaluation |-> Wrap(Str("3")), confidence |-> Wrap(Str("5")),
                  summary |-> Wrap(Str("s"))]]

\* R1 again from a later invitation: six content keys, no signatures, no tcdate.
NoteR1b ==
    [id |-> "R1", forum |-> "P1", signatures |-> <<>>, tcdate |-> 0,
     content |-> ("overall assessment" :> Wrap(Str("5"))) @@
                 [review |-> Wrap(Str("good, revised")), recommendation |-> Wrap(Str("4")),
                  overall_evaluation |-> Wrap(Str("3")), confidence |-> Wrap(PyNone),
                  summary |-> Wrap(Str("s"))]]

\* R2 on P2: a review text and nothing else.
NoteR2 ==
    [id |-> "R2", forum |-> "P2", signatures |-> <<"Rev2">>, tcdate |-> 172800000,
     content |-> [review |-> Wrap(Str("weak"))]]

\* R3 on P2: the review text is None instead of a wrapper.
NoteR3 ==
    [id |-> "R3", forum |-> "P2", signatures |-> <<"Rev3">>, tcdate |-> 172800000,
     content |-> [review |-> PyNone]]

NoteD1 == [id |-> "D1", forum |-> "P1", content |-> [decision |-> Wrap(Str("Accept"))]]

NoteD2 == [id |-> "D2", forum |-> "P2", content |-> [decision |-> Wrap(Str("Reject"))]]

\* A second decision on P1, without a decision value.
NoteD3 == [id |-> "D3", forum |-> "P1", content |-> [comment |-> Wrap(Str("see meta-review"))]]

\* A decision whose content holds a bare str.
NoteD4 == [id |-> "D4", forum |-> "P1", content |-> [decision |-> Str("Accept")]]

\* What get_all_notes returns for each query when the source has notes for it.
SourceNotes(query) ==
    CASE query = "Submission" -> <<NoteA, NoteB>>
      [] query = "Blind_Submission" -> <<NoteA2>>
      [] query = "ARR_Commitment" -> <<NoteM>>
      [] query = "venueid" -> <<NoteB>>
      [] query = "alt_venueid" -> <<NoteA>>
      [] query = "Official_Review" -> <<NoteR1, NoteR2>>
      [] query = "ARR_Review" -> <<NoteR1b>>
      [] query = "Review" -> <<NoteR3>>
      [] query = "Decision" -> <<NoteD1, NoteD2>>
      [] query = "ARR_Decision" -> <<NoteD3>>
      [] query = "Acceptance_Decision" -> <<NoteD4>>
      [] OTHER -> <<>>

(***************************************************************************)
(* The store: the committed tables (db) and the session's view of them     *)
(* (sess), which holds the pending changes of the transaction in flight.   *)
(***************************************************************************)
EmptyStore == [papers |-> <<>>, reviews |-> <<>>, mappings |-> <<>>]

\* session.merge(row): insert the row, or overwrite the row of the same key.
Merge(table, key, row) ==
    [x \in (DOMAIN table) \cup {key} |-> IF x = key THEN row ELSE table[x]]

\* A rollback that leaves the pending changes in the session.
Rollback_Keep(s, committed) == s

\* A rollback that empties the session's view of the tables.
Rollback_Drop(s, committed) == [papers |-> <<>>, reviews |-> <<>>, mappings |-> <<>>]

\* session.rollback(): the session drops its pending changes.
Rollback(s, committed) == committed

\* The flush of a commit fails on a review or mapping row whose paper_id names
\* no paper row, when the connection checks foreign keys.
ForeignKeyViolation(s) ==
    /\ ForeignKeysEnforced
    /\ \/ \E r \in DOMAIN s.reviews : s.reviews[r].paper_id \notin DOMAIN s.papers
       \/ \E m \in DOMAIN s.mappings : m[1] \notin DOMAIN s.papers

\* A lookup that never finds the paper.
PaperExists_Never(s, paper_id) == FALSE

\* session.query(Paper).filter_by(paper_id=paper_id).first()
PaperExists(s, paper_id) == paper_id \in DOMAIN s.papers

\* session.query(Review).filter_by(review_id=review_id).first()
ReviewExists(s, review_id) == review_id \in DOMAIN s.reviews

\* session.get(Paper, forum)
GetPaper(s, forum) == IF forum \in DOMAIN s.papers THEN s.papers[forum] ELSE PyNone

(***************************************************************************)
(* Deduplication: {note.id: note for note in notes}.values().  A dict      *)
(* keeps its keys in the order of their first insertion; a later           *)
(* assignment to a key replaces the value in place.                        *)
(***************************************************************************)
\* A dict that keeps the first value assigned to a key.
DictPut_FirstWins(d, note) ==
    IF \E i \in 1..Len(d) : d[i].id = note.id THEN d ELSE Append(d, note)

\* d[note.id] = note on the dict d, held as the sequence of its values.
DictPut(d, note) ==
    IF \E i \in 1..Len(d) : d[i].id = note.id
    THEN [i \in 1..Len(d) |-> IF d[i].id = note.id THEN note ELSE d[i]]
    ELSE Append(d, note)

RECURSIVE DictOf(_)
DictOf(notes) ==
    IF notes = <<>> THEN <<>>
    ELSE DictPut(DictOf(SubSeq(notes, 1, Len(notes) - 1)), notes[Len(notes)])

Dedupe(notes) == DictOf(notes)

(***************************************************************************)
(* Row construction.                                                       *)
(***************************************************************************)
\* A download whose failure propagates to the caller.
download_pdf_Raises(number, ok) ==
    IF ok THEN Str("data/pdfs/" \o number \o ".pdf") ELSE Raised

\* download_pdf(note.id, note.number): the path of the written file, or None
\* when get_attachment or the write raised.
download_pdf(number, ok) ==
    IF ok THEN Str("data/pdfs/" \o number \o ".pdf") ELSE PyNone

\* A condition that holds of every note.
HasPdf_Always(note) == TRUE

\* note.content.get("pdf"), as a condition
HasPdf(note) ==
    "pdf" \in DOMAIN note.content /\ Truthy(note.content["pdf"])

\* The title, abstract and authors of fetch_papers, in evaluation order.
PaperFields(note) ==
    [title |-> StrField(note.content, "title", "Unknown"),
     abstract |-> StrField(note.content, "abstract", ""),
     authors |-> AuthorsField(note.content)]

\* Whether building the Paper of a note raises.
PaperRaises(note) ==
    \E f \in DOMAIN PaperFields(note) : PaperFields(note)[f] = Raised

\* Paper(paper_id=..., ..., acceptance_status=None, license="CC-BY")
PaperRow(note, pdf_path) ==
    [title |-> PaperFields(note).title,
     abstract |-> PaperFields(note).abstract,
     authors |-> PaperFields(note).authors,
     venue |-> Str(VENUE_ID),
     year |-> 2023,
     submission_text |-> pdf_path,
     acceptance_status |-> PyNone,
     license |-> Str("CC-BY")]

(***************************************************************************)
(* State.                                                                  *)
(***************************************************************************)
VARIABLES
    pc,            \* where the process is
    db,            \* the committed tables of data/nlpeer.db
    sess,          \* the session: the committed tables plus its pending changes
    notes,         \* submissions / reviews / decisions: the notes gathered so far
    strat,         \* the index of the next invitation of the stage's list
    unique,        \* unique_submissions / unique_reviews / unique_decisions
    idx,           \* i of the enumerate loop
    paper_count,   \* paper_count of fetch_papers
    returned,      \* the values the three stages returned to __main__
    exit_code,     \* the exit status of the process, "none" while it runs
    failure,       \* the start-up failure the run logged, "" when there is none
    attempted,     \* the queries issued to the source in this run, in order
    lastq,         \* the outcome of the stage's query last issued
    fetched,       \* the note ids get_attachment was called for in this run
    last,          \* what the last step of the running loop did, and to which record
    source,        \* what the source answers to each query, "any" when it may vary
    cur,           \* the record of this run of the script
    prev           \* the store at the end of the run before this one, and its record

vars ==
    <<pc, db, sess, notes, strat, unique, idx, paper_count, returned, exit_code, failure,
      attempted, lastq, fetched, last, source, cur, prev>>

NoQuery == [q |-> "", ok |-> TRUE]

NoRecord == [op |-> "none", stage |-> "", id |-> ""]

\* The record of a run: its number, whether it reached the summary, whether
\* every storage operation of it succeeded, and the storage failures so far.
FirstRun == [n |-> 1, completed |-> FALSE, clean |-> TRUE, faults |-> 0]

NoReturn == [papers |-> 0, reviews |-> 0, decisions |-> 0]

\* The queries main.py issues.
Queries ==
    {PaperInvitations[i] : i \in DOMAIN PaperInvitations}
        \cup {"venueid", "alt_venueid"}
        \cup {ReviewInvitations[i] : i \in DOMAIN ReviewInvitations}
        \cup {DecisionInvitations[i] : i \in DOMAIN DecisionInvitations}

\* A source whose answers may differ from one call to the next.
AnySource == [q \in Queries |-> "any"]

\* A run is recorded when the source answers each query the same way every
\* time, so that two runs of the script see the same source results.
Tracked == source # AnySource

Init ==
    /\ pc = "db_setup"
    /\ db = EmptyStore
    /\ sess = EmptyStore
    /\ notes = <<>>
    /\ strat = 1
    /\ unique = <<>>
    /\ idx = 1
    /\ paper_count = 0
    /\ returned = NoReturn
    /\ exit_code = "none"
    /\ failure = ""
    /\ attempted = <<>>
    /\ lastq = NoQuery
    /\ fetched = {}
    /\ last = NoRecord
    /\ source = AnySource
    /\ cur = FirstRun
    /\ prev = [db |-> EmptyStore, run |-> FirstRun]

(***************************************************************************)
(* Start-up: the module-level code of main.py and check_profile.           *)
(***************************************************************************)
\* create_engine, create_all, Session(): a failure is logged and re-raised at
\* module level, which ends the process with a traceback.
DbSetup ==
    /\ pc = "db_setup"
    /\ \E ok \in BOOLEAN :
          IF ok
          THEN /\ pc' = "client_setup"
               /\ sess' = db
               /\ UNCHANGED <<exit_code, failure>>
          ELSE /\ pc' = "exit"
               /\ exit_code' = "1"
               /\ failure' = "database"
               /\ sess' = sess
    /\ UNCHANGED <<db, notes, strat, unique, idx, paper_count, returned, attempted,
                   lastq, fetched, last, source, cur, prev>>

\* OpenReviewClient(...): a failure is logged and re-raised at module level.
ClientSetup ==
    /\ pc = "client_setup"
    /\ \E ok \in BOOLEAN :
          IF ok
          THEN pc' = "check_profile" /\ UNCHANGED <<exit_code, failure>>
          ELSE pc' = "exit" /\ exit_code' = "1" /\ failure' = "client"
    /\ UNCHANGED <<db, sess, notes, strat, unique, idx, paper_count, returned,
                   attempted, lastq, fetched, last, source, cur, prev>>

\* A check whose failure is logged and does not stop the run.
CheckProfile_Continue ==
    /\ pc = "check_profile"
    /\ \E ok \in BOOLEAN :
          IF ok
          THEN UNCHANGED <<exit_code, failure>>
          ELSE exit_code' = exit_code /\ failure' = "profile"
    /\ pc' = "p_query"
    /\ strat' = 1
    /\ notes' = <<>>
    /\ paper_count' = 0
    /\ UNCHANGED <<db, sess, unique, idx, returned, attempted, lastq, fetched, last,
                   source, cur, prev>>

\* __main__: check_profile() returning False raises inside the try; the except
\* clause prints the failure, finally closes the session and the script ends.
CheckProfile ==
    /\ pc = "check_profile"
    /\ \E ok \in BOOLEAN :
          IF ok
          THEN pc' = "p_query" /\ UNCHANGED <<exit_code, failure>>
          ELSE pc' = "exit" /\ exit_code' = "0" /\ failure' = "profile"
    /\ strat' = 1
    /\ notes' = <<>>
    /\ paper_count' = 0
    /\ UNCHANGED <<db, sess, unique, idx, returned, attempted, lastq, fetched, last,
                   source, cur, prev>>

(***************************************************************************)
(* The source.                                                             *)
(***************************************************************************)
\* client.get_all_notes(...): it raises, or returns the notes the source has
\* for the query, or none.
QueryOutcomes(query) ==
    {o \in {[ok |-> FALSE, notes |-> <<>>, kind |-> "fail"],
            [ok |-> TRUE, notes |-> <<>>, kind |-> "none"],
            [ok |-> TRUE, notes |-> SourceNotes(query), kind |-> "notes"]} :
        source[query] \in {"any", o.kind}}

\* The storage operations of one record step that can raise: the SELECT that
\* looks the row up ("query"), or the merge, flush and commit ("commit").
StoreFaults ==
    IF Tracked /\ cur.faults >= MaxStoreFaults THEN {"none"} ELSE {"none", "query", "commit"}

\* The record of the run after a storage operation of it failed.
Faulted(c) == IF Tracked THEN [c EXCEPT !.clean = FALSE, !.faults = @ + 1] ELSE c

\* One of the invitation queries of a stage's for loop, inside its own try.
InvitationQuery(here, invitations, next) ==
    /\ pc = here
    /\ strat <= Len(invitations)
    /\ \E o \in QueryOutcomes(invitations[strat]) :
          /\ notes' = (IF o.ok THEN notes \o o.notes ELSE notes)
          /\ lastq' = [q |-> invitations[strat], ok |-> o.ok]
    /\ attempted' = Append(attempted, invitations[strat])
    /\ strat' = strat + 1
    /\ pc' = (IF strat = Len(invitations) THEN next ELSE here)
    /\ UNCHANGED <<db, sess, unique, idx, paper_count, returned, exit_code, failure, fetched,
                   last, source, cur, prev>>

\* An except clause that ends the run instead of returning to __main__.
StageAbort_Exit(stage, next) ==
    /\ sess' = Rollback(sess, db)
    /\ returned' = [returned EXCEPT ![stage] = IF stage = "papers" THEN paper_count ELSE 0]
    /\ pc' = "exit"
    /\ strat' = 1
    /\ notes' = <<>>

\* The except clause that wraps a whole stage: log, session.rollback(), return.
\* It returns paper_count from fetch_papers and 0 from the other two.
StageAbort(stage, next) ==
    /\ sess' = Rollback(sess, db)
    /\ returned' = [returned EXCEPT ![stage] = IF stage = "papers" THEN paper_count ELSE 0]
    /\ pc' = next
    /\ strat' = 1
    /\ notes' = <<>>

\* The unique notes of a stage: the dict comprehension and its len().
DedupeStep(here, stage, next) ==
    /\ pc = here
    /\ unique' = Dedupe(notes)
    /\ idx' = 1
    /\ lastq' = NoQuery
    /\ pc' = next
    /\ UNCHANGED <<db, sess, notes, strat, paper_count, returned, exit_code, failure, attempted,
                   fetched, last, source, cur, prev>>

\* A return that does not wait for the end of the loop.
ReturnStep_Early(here, stage, value, next) ==
    /\ pc = here
    /\ db' = sess
    /\ returned' = [returned EXCEPT ![stage] = value]
    /\ pc' = next
    /\ strat' = 1
    /\ notes' = <<>>
    /\ last' = NoRecord
    /\ UNCHANGED <<sess, unique, idx, paper_count, exit_code, failure, attempted, lastq, fetched,
                   source, cur, prev>>

\* The end of a stage's loop: the final session.commit() and the return.
ReturnStep(here, stage, value, next) ==
    /\ pc = here
    /\ idx > Len(unique)
    /\ db' = sess
    /\ returned' = [returned EXCEPT ![stage] = value]
    /\ pc' = next
    /\ strat' = 1
    /\ notes' = <<>>
    /\ last' = NoRecord
    /\ UNCHANGED <<sess, unique, idx, paper_count, exit_code, failure, attempted, lastq, fetched,
                   source, cur, prev>>

(***************************************************************************)
(* fetch_papers                                                            *)
(***************************************************************************)
PaperQuery == InvitationQuery("p_query", PaperInvitations, "p_venueid")

\* A fallback that is queried whatever was gathered before it.
FallbackQuery_Always(here, query, next) ==
    /\ pc = here
    /\ attempted' = Append(attempted, query)
    /\ \E o \in QueryOutcomes(query) :
          /\ lastq' = [q |-> query, ok |-> o.ok]
          /\ IF o.ok
             THEN /\ notes' = (IF notes # <<>> THEN notes ELSE o.notes)
                  /\ pc' = next
                  /\ UNCHANGED <<sess, strat, returned>>
             ELSE StageAbort("papers", "r_query")
    /\ UNCHANGED <<db, unique, idx, paper_count, exit_code, failure, fetched, last, source,
                   cur, prev>>

\* A fallback of fetch_papers: queried only when nothing was gathered, and
\* outside any try of its own, so that its failure reaches the except clause
\* of the whole function.
FallbackQuery(here, query, next) ==
    /\ pc = here
    /\ IF notes # <<>>
       THEN /\ pc' = next
            /\ UNCHANGED <<sess, notes, strat, returned, attempted, lastq>>
       ELSE /\ attempted' = Append(attempted, query)
            /\ \E o \in QueryOutcomes(query) :
                  /\ lastq' = [q |-> query, ok |-> o.ok]
                  /\ IF o.ok
                     THEN /\ notes' = o.notes
                          /\ pc' = next
                          /\ UNCHANGED <<sess, strat, returned>>
                     ELSE StageAbort("papers", "r_query")
    /\ UNCHANGED <<db, unique, idx, paper_count, exit_code, failure, fetched, last, source,
                   cur, prev>>

PaperVenueid == FallbackQuery("p_venueid", "venueid", "p_alt")

PaperAltVenueid == FallbackQuery("p_alt", "alt_venueid", "p_dedupe")

PaperDedupe == DedupeStep("p_dedupe", "papers", "p_loop")

\* One iteration of the loop over unique_submissions.
PaperRecord ==
    /\ pc = "p_loop"
    /\ idx <= Len(unique)
    /\ \E fault \in StoreFaults, pdf_ok \in BOOLEAN :
         LET note == unique[idx]
             pdf_path == IF HasPdf(note) THEN download_pdf(note.number, pdf_ok) ELSE PyNone
             merged == [sess EXCEPT !.papers = Merge(@, note.id, PaperRow(note, pdf_path))]
         IN  CASE fault = "query" ->
                    /\ sess' = Rollback(sess, db)
                    /\ last' = [op |-> "failed", stage |-> "papers", id |-> note.id]
                    /\ cur' = Faulted(cur)
                    /\ UNCHANGED <<db, paper_count, fetched>>
               [] fault # "query" /\ PaperExists(sess, note.id) ->
                    /\ paper_count' = paper_count + 1
                    /\ last' = [op |-> "skipped", stage |-> "papers", id |-> note.id]
                    /\ UNCHANGED <<db, sess, fetched, cur>>
               [] fault # "query" /\ ~PaperExists(sess, note.id) /\ PaperRaises(note) ->
                    /\ sess' = Rollback(sess, db)
                    /\ last' = [op |-> "failed", stage |-> "papers", id |-> note.id]
                    /\ UNCHANGED <<db, paper_count, fetched, cur>>
               [] OTHER ->
                    /\ fetched' = (IF HasPdf(note) THEN fetched \cup {note.id} ELSE fetched)
                    /\ IF fault = "commit" \/ ForeignKeyViolation(merged)
                       THEN /\ sess' = Rollback(merged, db)
                            /\ last' = [op |-> "failed", stage |-> "papers", id |-> note.id]
                            /\ cur' = Faulted(cur)
                            /\ UNCHANGED <<db, paper_count>>
                       ELSE /\ sess' = merged
                            /\ db' = merged
                            /\ paper_count' = paper_count + 1
                            /\ last' = [op |-> "stored", stage |-> "papers", id |-> note.id]
                            /\ cur' = cur
    /\ idx' = idx + 1
    /\ UNCHANGED <<pc, notes, strat, unique, returned, exit_code, failure, attempted, lastq,
                   source, prev>>

PaperReturn == ReturnStep("p_loop", "papers", paper_count, "r_query")

(***************************************************************************)
(* fetch_reviews                                                           *)
(***************************************************************************)
\* datetime.fromtimestamp(tcdate / 1000).date() if tcdate else
\* datetime.now().date(): the day of the timestamp, or the day of the run.
ReviewDate(tcdate) ==
    IF tcdate # 0 THEN [day |-> (tcdate \div 1000) \div 86400] ELSE [today |-> TRUE]

\* A resolution that tries the three score fields in the reverse order.
OverallScore_EvaluationFirst(content) ==
    OrElse(OrElse(OrElse(GetValue(ContentGet(content, "overall_evaluation"), Str("")),
                         GetValue(ContentGet(content, "recommendation"), Str(""))),
                  GetValue(ContentGet(content, "overall assessment"), Str(""))),
           Str(""))

\* The first non-empty of the three score fields, or "".
OverallScore(content) ==
    OrElse(OrElse(OrElse(GetValue(ContentGet(content, "overall assessment"), Str("")),
                         GetValue(ContentGet(content, "recommendation"), Str(""))),
                  GetValue(ContentGet(content, "overall_evaluation"), Str(""))),
           Str(""))

ReviewStructure(content) ==
    IF Cardinality(DOMAIN content) > 5 THEN Str("structured") ELSE Str("unstructured")

ReviewFields(rev) ==
    [review_text |-> StrField(rev.content, "review", ""),
     overall_score |-> OverallScore(rev.content),
     confidence_score |-> StrField(rev.content, "confidence", "")]

ReviewRaises(rev) ==
    \E f \in DOMAIN ReviewFields(rev) : ReviewFields(rev)[f] = Raised

\* Review(review_id=..., paper_id=rev.forum, ...)
ReviewRow(rev) ==
    [paper_id |-> rev.forum,
     reviewer_id |-> IF rev.signatures # <<>> THEN Str(rev.signatures[1]) ELSE PyNone,
     review_text |-> ReviewFields(rev).review_text,
     review_date |-> ReviewDate(rev.tcdate),
     overall_score |-> ReviewFields(rev).overall_score,
     confidence_score |-> ReviewFields(rev).confidence_score,
     review_structure |-> ReviewStructure(rev.content)]

\* A mapping of another role and round.
MappingRow_Author == [reviewer_role |-> Str("author"), review_round |-> 2]

\* PaperReviewMapping(paper_id, review_id, reviewer_role="reviewer", review_round=1)
MappingRow == [reviewer_role |-> Str("reviewer"), review_round |-> 1]

ReviewQuery == InvitationQuery("r_query", ReviewInvitations, "r_dedupe")

ReviewDedupe == DedupeStep("r_dedupe", "reviews", "r_loop")

\* One iteration of the loop over unique_reviews.
ReviewRecord ==
    /\ pc = "r_loop"
    /\ idx <= Len(unique)
    /\ \E fault \in StoreFaults :
         LET rev == unique[idx]
             merged == [sess EXCEPT
                          !.reviews = Merge(@, rev.id, ReviewRow(rev)),
                          !.mappings = Merge(@, <<rev.forum, rev.id>>, MappingRow)]
         IN  CASE fault = "query" ->
                    /\ sess' = Rollback(sess, db)
                    /\ last' = [op |-> "failed", stage |-> "reviews", id |-> rev.id]
                    /\ cur' = Faulted(cur)
                    /\ db' = db
               [] fault # "query" /\ ReviewExists(sess, rev.id) ->
                    /\ last' = [op |-> "skipped", stage |-> "reviews", id |-> rev.id]
                    /\ UNCHANGED <<db, sess, cur>>
               [] fault # "query" /\ ~ReviewExists(sess, rev.id) /\ ReviewRaises(rev) ->
                    /\ sess' = Rollback(sess, db)
                    /\ last' = [op |-> "failed", stage |-> "reviews", id |-> rev.id]
                    /\ UNCHANGED <<db, cur>>
               [] OTHER ->
                    IF fault = "commit" \/ ForeignKeyViolation(merged)
                    THEN /\ sess' = Rollback(merged, db)
                         /\ last' = [op |-> "failed", stage |-> "reviews", id |-> rev.id]
                         /\ cur' = Faulted(cur)
                         /\ db' = db
                    ELSE /\ sess' = merged
                         /\ db' = merged
                         /\ last' = [op |-> "stored", stage |-> "reviews", id |-> rev.id]
                         /\ cur' = cur
    /\ idx' = idx + 1
    /\ UNCHANGED <<pc, notes, strat, unique, paper_count, returned, exit_code, failure, attempted,
                   lastq, fetched, source, prev>>

ReviewReturn == ReturnStep("r_loop", "reviews", Len(unique), "d_query")

(***************************************************************************)
(* fetch_decisions                                                         *)
(***************************************************************************)
DecisionQuery == InvitationQuery("d_query", DecisionInvitations, "d_dedupe")

DecisionDedupe == DedupeStep("d_dedupe", "decisions", "d_loop")

\* d.content.get("decision", {}).get("value", "") or ""
DecisionValue(d) == StrField(d.content, "decision", "")

\* An update that reaches every paper row.
SetStatus_All(s, forum, decision) ==
    [s EXCEPT !.papers = [p \in DOMAIN @ |-> [@[p] EXCEPT !.acceptance_status = decision]]]

\* paper.acceptance_status = decision, on the session's row of the paper.
SetStatus(s, forum, decision) ==
    [s EXCEPT !.papers[forum].acceptance_status = decision]

\* One iteration of the loop over unique_decisions.
DecisionRecord ==
    /\ pc = "d_loop"
    /\ idx <= Len(unique)
    /\ \E fault \in StoreFaults :
         LET d == unique[idx]
         IN  CASE DecisionValue(d) = Raised ->
                    /\ sess' = Rollback(sess, db)
                    /\ last' = [op |-> "failed", stage |-> "decisions", id |-> d.id]
                    /\ UNCHANGED <<db, cur>>
               [] DecisionValue(d) # Raised /\ fault = "query" ->
                    /\ sess' = Rollback(sess, db)
                    /\ last' = [op |-> "failed", stage |-> "decisions", id |-> d.id]
                    /\ cur' = Faulted(cur)
                    /\ db' = db
               [] DecisionValue(d) # Raised /\ fault # "query"
                     /\ GetPaper(sess, d.forum) = PyNone ->
                    /\ last' = [op |-> "no_paper", stage |-> "decisions", id |-> d.id]
                    /\ UNCHANGED <<db, sess, cur>>
               [] OTHER ->
                    IF fault = "commit"
                    THEN /\ sess' = Rollback(SetStatus(sess, d.forum, DecisionValue(d)), db)
                         /\ last' = [op |-> "failed", stage |-> "decisions", id |-> d.id]
                         /\ cur' = Faulted(cur)
                         /\ db' = db
                    ELSE /\ sess' = SetStatus(sess, d.forum, DecisionValue(d))
                         /\ db' = SetStatus(sess, d.forum, DecisionValue(d))
                         /\ last' = [op |-> "updated", stage |-> "decisions", id |-> d.id]
                         /\ cur' = cur
    /\ idx' = idx + 1
    /\ UNCHANGED <<pc, notes, strat, unique, paper_count, returned, exit_code, failure, attempted,
                   lastq, fetched, source, prev>>

DecisionReturn == ReturnStep("d_loop", "decisions", Len(unique), "summary")

(***************************************************************************)
(* __main__ after the stages, and the next run of the script.              *)
(***************************************************************************)
\* The database verification, the warnings and the final print; the finally
\* clause closes the session and the script ends.
Summary ==
    /\ pc = "summary"
    /\ pc' = "exit"
    /\ exit_code' = "0"
    /\ failure' = failure
    /\ cur' = (IF Tracked THEN [cur EXCEPT !.completed = TRUE] ELSE cur)
    /\ UNCHANGED <<db, sess, notes, strat, unique, idx, paper_count, returned, attempted,
                   lastq, fetched, last, source, prev>>

\* The script is started again on the same database file.
Restart ==
    /\ pc = "exit"
    /\ Tracked => cur.n < MaxRuns
    /\ pc' = "db_setup"
    /\ prev' = (IF Tracked THEN [db |-> db, run |-> cur] ELSE prev)
    /\ cur' = (IF Tracked THEN [FirstRun EXCEPT !.n = cur.n + 1, !.faults = cur.faults]
                ELSE cur)
    /\ sess' = EmptyStore
    /\ notes' = <<>>
    /\ strat' = 1
    /\ unique' = <<>>
    /\ idx' = 1
    /\ paper_count' = 0
    /\ returned' = NoReturn
    /\ exit_code' = "none"
    /\ failure' = ""
    /\ attempted' = <<>>
    /\ lastq' = NoQuery
    /\ fetched' = {}
    /\ last' = NoRecord
    /\ UNCHANGED <<db, source>>

Next ==
    \/ DbSetup
    \/ ClientSetup
    \/ CheckProfile
    \/ PaperQuery
    \/ PaperVenueid
    \/ PaperAltVenueid
    \/ PaperDedupe
    \/ PaperRecord
    \/ PaperReturn
    \/ ReviewQuery
    \/ ReviewDedupe
    \/ ReviewRecord
    \/ ReviewReturn
    \/ DecisionQuery
    \/ DecisionDedupe
    \/ DecisionRecord
    \/ DecisionReturn
    \/ Summary
    \/ Restart

Spec == Init /\ [][Next]_vars

(***************************************************************************)
(* One run of the script, on a new database or on the database an earlier  *)
(* run left, taken to its end.                                             *)
(***************************************************************************)
\* The store an earlier run left: P1 with its file, and R1 with its mapping.
EarlierStore ==
    [papers |-> Merge(<<>>, "P1", PaperRow(NoteA, download_pdf("1", TRUE))),
     reviews |-> Merge(<<>>, "R1", ReviewRow(NoteR1)),
     mappings |-> Merge(<<>>, <<"P1", "R1">>, MappingRow)]

InitLive ==
    /\ pc = "db_setup"
    /\ db \in {EmptyStore, EarlierStore}
    /\ sess = EmptyStore
    /\ notes = <<>>
    /\ strat = 1
    /\ unique = <<>>
    /\ idx = 1
    /\ paper_count = 0
    /\ returned = NoReturn
    /\ exit_code = "none"
    /\ failure = ""
    /\ attempted = <<>>
    /\ lastq = NoQuery
    /\ fetched = {}
    /\ last = NoRecord
    /\ source = AnySource
    /\ cur = FirstRun
    /\ prev = [db |-> EmptyStore, run |-> FirstRun]

\* The steps of one run.
NextLive ==
    \/ DbSetup
    \/ ClientSetup
    \/ CheckProfile
    \/ PaperQuery
    \/ PaperVenueid
    \/ PaperAltVenueid
    \/ PaperDedupe
    \/ PaperRecord
    \/ PaperReturn
    \/ ReviewQuery
    \/ ReviewDedupe
    \/ ReviewRecord
    \/ ReviewReturn
    \/ DecisionQuery
    \/ DecisionDedupe
    \/ DecisionRecord
    \/ DecisionReturn
    \/ Summary

\* The script is sequential code: whenever a step of it can be taken, one is.
SpecLive == InitLive /\ [][NextLive]_vars /\ WF_vars(NextLive)

(***************************************************************************)
(* The script run several times in a row against a source that answers     *)
(* every query the same way each time.                                     *)
(***************************************************************************)
\* The answers of a source: the notes it has, but nothing or a failure for
\* the queries named.
Answers(none, fail) ==
    [q \in Queries |-> IF q \in fail THEN "fail" ELSE IF q \in none THEN "none" ELSE "notes"]

PaperInvitationSet == {PaperInvitations[i] : i \in DOMAIN PaperInvitations}

\* The queries that return nothing, and the queries that fail, in the sources
\* the script is run against.
SilentQueries ==
    {{}, {"Blind_Submission", "ARR_Review"}, {"Submission", "Official_Review", "Decision"},
     PaperInvitationSet, PaperInvitationSet \cup {"venueid"}, Queries}

FailingQueries ==
    {{}, {"Submission", "Official_Review", "Decision"},
     {"ARR_Commitment", "ARR_Review", "Review", "ARR_Decision", "Acceptance_Decision"},
     {"venueid"}, {"alt_venueid"}, PaperInvitationSet \cup {"venueid"}}

Scenarios == {Answers(none, fail) : none \in SilentQueries, fail \in FailingQueries}

InitTwice ==
    /\ pc = "db_setup"
    /\ db = EmptyStore
    /\ sess = EmptyStore
    /\ notes = <<>>
    /\ strat = 1
    /\ unique = <<>>
    /\ idx = 1
    /\ paper_count = 0
    /\ returned = NoReturn
    /\ exit_code = "none"
    /\ failure = ""
    /\ attempted = <<>>
    /\ lastq = NoQuery
    /\ fetched = {}
    /\ last = NoRecord
    /\ source \in Scenarios
    /\ cur = FirstRun
    /\ prev = [db |-> EmptyStore, run |-> FirstRun]

SpecTwice == InitTwice /\ [][Next]_vars

(***************************************************************************)
(* Deduplication alone, on every short list of notes.                      *)
(***************************************************************************)
\* The longest list of gathered notes.
MaxLen == 4

PaperNotes == {NoteA, NoteA2, NoteB, NoteM}

ReviewNotes == {NoteR1, NoteR1b, NoteR2, NoteR3}

DecisionNotes == {NoteD1, NoteD2, NoteD3, NoteD4}

\* The lists of at most n notes of a set.
ListsOf(set, n) == UNION {[1..m -> set] : m \in 0..n}

InitDedupe ==
    /\ \/ pc = "p_dedupe" /\ notes \in ListsOf(PaperNotes, MaxLen)
       \/ pc = "r_dedupe" /\ notes \in ListsOf(ReviewNotes, MaxLen)
       \/ pc = "d_dedupe" /\ notes \in ListsOf(DecisionNotes \cup {[NoteD3 EXCEPT !.id = "D1"]},
                                                 MaxLen)
    /\ db = EmptyStore
    /\ sess = EmptyStore
    /\ strat = 1
    /\ unique = <<>>
    /\ idx = 1
    /\ paper_count = 0
    /\ returned = NoReturn
    /\ exit_code = "none"
    /\ failure = ""
    /\ attempted = <<>>
    /\ lastq = NoQuery
    /\ fetched = {}
    /\ last = NoRecord
    /\ source = AnySource
    /\ cur = FirstRun
    /\ prev = [db |-> EmptyStore, run |-> FirstRun]

NextDedupe ==
    \/ PaperDedupe
    \/ ReviewDedupe
    \/ DecisionDedupe

SpecDedupe == InitDedupe /\ [][NextDedupe]_vars

(***************************************************************************)
(* The review loop alone, on one review whose three score fields take      *)
(* every shape: absent, an empty value, a null value, a value.             *)
(***************************************************************************)
ScoreKeys == {"overall assessment", "recommendation", "overall_evaluation"}

\* The value a score field holds when it holds one.
ScoreOf(key) ==
    CASE key = "overall assessment" -> "5"
      [] key = "recommendation" -> "4"
      [] OTHER -> "3"

\* The entries a content can hold under a key.
EntriesOf(key) ==
    IF key = "review" THEN {Wrap(Str("text"))}
    ELSE {Wrap(Str("")), Wrap(PyNone), Wrap(Str(ScoreOf(key)))}

\* The contents of a review: a text, and any of the score fields in any shape.
ScoreContents ==
    UNION {{c \in [keys \cup {"review"} -> UNION {EntriesOf(k) : k \in keys \cup {"review"}}] :
              \A k \in DOMAIN c : c[k] \in EntriesOf(k)} : keys \in SUBSET ScoreKeys}

InitScore ==
    /\ pc = "r_loop"
    /\ \E c \in ScoreContents :
          /\ notes = <<[NoteR2 EXCEPT !.content = c]>>
          /\ unique = <<[NoteR2 EXCEPT !.content = c]>>
    /\ db = EmptyStore
    /\ sess = EmptyStore
    /\ strat = 1
    /\ idx = 1
    /\ paper_count = 0
    /\ returned = NoReturn
    /\ exit_code = "none"
    /\ failure = ""
    /\ attempted = <<>>
    /\ lastq = NoQuery
    /\ fetched = {}
    /\ last = NoRecord
    /\ source = AnySource
    /\ cur = FirstRun
    /\ prev = [db |-> EmptyStore, run |-> FirstRun]

NextScore ==
    \/ ReviewRecord
    \/ ReviewReturn

SpecScore == InitScore /\ [][NextScore]_vars

(***************************************************************************)
(* simple_emnlp_crawler.py: crawl().  One query for the submissions, then  *)
(* for each submission its reviews, and the paper with all its reviews and *)
(* mappings in one transaction.  Nothing in crawl() catches an exception   *)
(* but get_reviews and download_pdf: any other ends the process.           *)
(* notes holds submissions, unique the reviews of the submission at hand,  *)
(* paper_count papers_added and returned.reviews reviews_added.            *)
(***************************************************************************)
\* A comment on P1.
NoteC1 ==
    [id |-> "C1", forum |-> "P1", signatures |-> <<"Ann">>, tcdate |-> 86400000,
     content |-> [comment |-> Wrap(Str("thanks"))]]

\* A second review of P1.
NoteR5 ==
    [id |-> "R5", forum |-> "P1", signatures |-> <<>>, tcdate |-> 172800000,
     content |-> ("overall assessment" :> Wrap(Str("2"))) @@ [review |-> Wrap(Str("bad"))]]

\* A review of P3.
NoteR6 ==
    [id |-> "R6", forum |-> "P3", signatures |-> <<"Rev6">>, tcdate |-> 86400000,
     content |-> [review |-> Wrap(Str("fine"))]]

\* A reply of a forum: a note and the last segment of its invitation.
Reply(invitation, note) == [invitation |-> invitation, note |-> note]

\* What client.get_all_notes(invitation=SUB_INV) can return.
CrawlSubmissions ==
    {<<>>, <<NoteA, NoteB>>, <<NoteB, NoteM, NoteA>>, <<NoteA, NoteA2, NoteB>>}

\* What client.get_all_notes(forum=forum_id) can return.
CrawlReplies(forum_id) ==
    CASE forum_id = "P1" ->
            {<<>>, <<Reply("Public_Comment", NoteC1)>>,
             <<Reply("Official_Review", NoteR1), Reply("Public_Comment", NoteC1)>>,
             <<Reply("Official_Review", NoteR1), Reply("Official_Review", NoteR5)>>}
      [] forum_id = "P2" ->
            {<<>>, <<Reply("Official_Review", NoteR2)>>,
             <<Reply("Official_Review", NoteR2), Reply("Official_Review", NoteR3)>>}
      [] OTHER -> {<<>>, <<Reply("Official_Review", NoteR6)>>}

\* 'Official_Review' in note.invitation
IsOfficialReview(reply) == reply.invitation \in {"Official_Review"}

\* [note for note in replies if 'Official_Review' in note.invitation]
OfficialReviews(replies) ==
    LET kept == SelectSeq(replies, IsOfficialReview)
    IN  [i \in 1..Len(kept) |-> kept[i].note]

\* get_reviews(forum_id): the official reviews of the replies, or [] when the
\* query raised.
get_reviews(replies, ok) == IF ok THEN OfficialReviews(replies) ELSE <<>>

\* content.get(key, {}).get("value", "")
CrawlField(content, key) == GetValue(ContentGet(content, key), Str(""))

\* download_pdf(note) of the crawler: None without a pdf entry or on failure.
CrawlDownloadPdf(note, ok) ==
    IF HasPdf(note) THEN download_pdf(note.number, ok) ELSE PyNone

CrawlPaperFields(sub) ==
    [title |-> CrawlField(sub.content, "title"),
     abstract |-> CrawlField(sub.content, "abstract"),
     authors |-> Join(GetValue(ContentGet(sub.content, "authors"), List(<<>>)))]

CrawlPaperRaises(sub) ==
    \E f \in DOMAIN CrawlPaperFields(sub) : CrawlPaperFields(sub)[f] = Raised

\* Paper(paper_id=forum_id, ...)
CrawlPaperRow(sub, pdf) ==
    [title |-> CrawlPaperFields(sub).title,
     abstract |-> CrawlPaperFields(sub).abstract,
     authors |-> CrawlPaperFields(sub).authors,
     venue |-> Str(VENUE_ID),
     year |-> 2023,
     submission_text |-> pdf,
     acceptance_status |-> PyNone,
     license |-> Str("CC-BY")]

CrawlReviewFields(rev) ==
    [review_text |-> CrawlField(rev.content, "review"),
     overall_score |-> CrawlField(rev.content, "overall assessment"),
     confidence_score |-> CrawlField(rev.content, "confidence")]

CrawlReviewRaises(rev) ==
    \E f \in DOMAIN CrawlReviewFields(rev) : CrawlReviewFields(rev)[f] = Raised

\* Review(review_id=rev.id, paper_id=forum_id, ...)
CrawlReviewRow(forum_id, rev) ==
    [paper_id |-> forum_id,
     reviewer_id |-> IF rev.signatures # <<>> THEN Str(rev.signatures[1]) ELSE PyNone,
     review_text |-> CrawlReviewFields(rev).review_text,
     review_date |-> [day |-> (rev.tcdate \div 1000) \div 86400],
     overall_score |-> CrawlReviewFields(rev).overall_score,
     confidence_score |-> CrawlReviewFields(rev).confidence_score,
     review_structure |-> ReviewStructure(rev.content)]

RECURSIVE AddReviews(_, _, _)
\* sess.add_all([review_row, mapping_row]) for each review of the list.
AddReviews(s, forum_id, reviews) ==
    IF reviews = <<>> THEN s
    ELSE LET rev == reviews[1]
         IN  AddReviews([s EXCEPT
                           !.reviews = Merge(@, rev.id, CrawlReviewRow(forum_id, rev)),
                           !.mappings = Merge(@, <<forum_id, rev.id>>, MappingRow)],
                        forum_id, Tail(reviews))

\* A session that is given the paper row and none of the review rows.
CrawlPending_PaperOnly(s, sub, pdf, reviews) ==
    [s EXCEPT !.papers = Merge(@, sub.id, CrawlPaperRow(sub, pdf))]

\* The session after sess.add(paper_row) and the add_all of every review.
CrawlPending(s, sub, pdf, reviews) ==
    AddReviews([s EXCEPT !.papers = Merge(@, sub.id, CrawlPaperRow(sub, pdf))],
               sub.id, reviews)

\* The INSERTs of the flush fail on a primary key that is already stored, or
\* that two of the new rows share.
CrawlConflict(s, sub, reviews) ==
    \/ \E i \in 1..Len(reviews) :
          \/ reviews[i].id \in DOMAIN s.reviews
          \/ <<sub.id, reviews[i].id>> \in DOMAIN s.mappings
    \/ \E i, j \in 1..Len(reviews) : i # j /\ reviews[i].id = reviews[j].id

\* The store main.py can leave: a review and its mapping without their paper.
OrphanStore ==
    [papers |-> <<>>,
     reviews |-> Merge(<<>>, "R2", ReviewRow(NoteR2)),
     mappings |-> Merge(<<>>, <<"P2", "R2">>, MappingRow)]

InitCrawl ==
    /\ pc = "c_query"
    /\ db \in {EmptyStore, EarlierStore, OrphanStore}
    /\ sess = db
    /\ notes = <<>>
    /\ strat = 1
    /\ unique = <<>>
    /\ idx = 1
    /\ paper_count = 0
    /\ returned = NoReturn
    /\ exit_code = "none"
    /\ failure = ""
    /\ attempted = <<>>
    /\ lastq = NoQuery
    /\ fetched = {}
    /\ last = NoRecord
    /\ source = AnySource
    /\ cur = FirstRun
    /\ prev = [db |-> db, run |-> FirstRun]

\* submissions = client.get_all_notes(invitation=SUB_INV), outside any try.
CrawlQuery ==
    /\ pc = "c_query"
    /\ \E ok \in BOOLEAN, subs \in CrawlSubmissions :
          /\ lastq' = [q |-> "Submission", ok |-> ok]
          /\ IF ok
             THEN /\ notes' = subs
                  /\ pc' = "c_reviews"
                  /\ UNCHANGED <<exit_code, failure>>
             ELSE /\ notes' = notes
                  /\ pc' = "exit"
                  /\ exit_code' = "1"
                  /\ failure' = "crawl"
    /\ idx' = 1
    /\ UNCHANGED <<db, sess, strat, unique, paper_count, returned, attempted, fetched, last,
                   source, cur, prev>>

\* reviews = get_reviews(forum_id) for the next submission.
CrawlGetReviews ==
    /\ pc = "c_reviews"
    /\ idx <= Len(notes)
    /\ \E ok \in BOOLEAN, replies \in CrawlReplies(notes[idx].id) :
          /\ unique' = get_reviews(replies, ok)
          /\ lastq' = [q |-> "forum", ok |-> ok]
    /\ pc' = "c_build"
    /\ UNCHANGED <<db, sess, notes, strat, idx, paper_count, returned, exit_code, failure,
                   attempted, fetched, last, source, cur, prev>>

\* The rest of the loop body: the two skips, the rows and sess.commit().  An
\* exception ends the process, and its pending rows are never committed.
CrawlRecord ==
    /\ pc = "c_build"
    /\ \E fault \in StoreFaults, pdf_ok \in BOOLEAN :
         LET sub == notes[idx]
             pdf == CrawlDownloadPdf(sub, pdf_ok)
             pending == CrawlPending(sess, sub, pdf, unique)
             crash == /\ pc' = "exit"
                      /\ exit_code' = "1"
                      /\ failure' = "crawl"
                      /\ sess' = db
                      /\ last' = [op |-> "failed", stage |-> "crawl", id |-> sub.id]
                      /\ UNCHANGED <<db, idx, paper_count, returned>>
         IN  CASE unique = <<>> ->
                    /\ last' = [op |-> "no_reviews", stage |-> "crawl", id |-> sub.id]
                    /\ pc' = "c_reviews"
                    /\ idx' = idx + 1
                    /\ UNCHANGED <<db, sess, paper_count, returned, exit_code, failure, fetched>>
               [] unique # <<>> /\ fault = "query" ->
                    crash /\ fetched' = fetched
               [] unique # <<>> /\ fault # "query" /\ PaperExists(sess, sub.id) ->
                    /\ last' = [op |-> "skipped", stage |-> "crawl", id |-> sub.id]
                    /\ pc' = "c_reviews"
                    /\ idx' = idx + 1
                    /\ UNCHANGED <<db, sess, paper_count, returned, exit_code, failure, fetched>>
               [] unique # <<>> /\ fault # "query" /\ ~PaperExists(sess, sub.id)
                     /\ CrawlPaperRaises(sub) ->
                    crash /\ fetched' = fetched
               [] OTHER ->
                    /\ fetched' = (IF HasPdf(sub) THEN fetched \cup {sub.id} ELSE fetched)
                    /\ IF \/ \E i \in 1..Len(unique) : CrawlReviewRaises(unique[i])
                          \/ CrawlConflict(sess, sub, unique)
                          \/ fault = "commit"
                       THEN crash
                       ELSE /\ sess' = pending
                            /\ db' = pending
                            /\ paper_count' = paper_count + 1
                            /\ returned' = [returned EXCEPT !.reviews = @ + Len(unique)]
                            /\ last' = [op |-> "stored", stage |-> "crawl", id |-> sub.id]
                            /\ pc' = "c_reviews"
                            /\ idx' = idx + 1
                            /\ UNCHANGED <<exit_code, failure>>
    /\ UNCHANGED <<notes, strat, unique, attempted, lastq, source, cur, prev>>

\* sess.close() and the end of the script.
CrawlDone ==
    /\ pc = "c_reviews"
    /\ idx > Len(notes)
    /\ pc' = "exit"
    /\ exit_code' = "0"
    /\ UNCHANGED <<db, sess, notes, strat, unique, idx, paper_count, returned, failure,
                   attempted, lastq, fetched, last, source, cur, prev>>

NextCrawl ==
    \/ CrawlQuery
    \/ CrawlGetReviews
    \/ CrawlRecord
    \/ CrawlDone

SpecCrawl == InitCrawl /\ [][NextCrawl]_vars

(***************************************************************************)
(* Vocabulary of the properties.                                           *)
(***************************************************************************)
StartPcs == {"db_setup", "client_setup", "check_profile"}

PaperPcs == {"p_query", "p_venueid", "p_alt", "p_dedupe", "p_loop"}

ReviewPcs == {"r_query", "r_dedupe", "r_loop"}

DecisionPcs == {"d_query", "d_dedupe", "d_loop"}

LoopPcs == {"p_loop", "r_loop", "d_loop"}

\* The step is an iteration of the loop at the given place.
RecordStep(loop) == pc = loop /\ idx <= Len(unique) /\ idx' = idx + 1

\* The iteration of this step ended in the except clause of the loop body.
RecordFailed == last'.op = "failed"

\* The places of discovery of the stage a query belongs to.
DiscoveryPcs(query) ==
    IF query \in PaperInvitationSet \cup {"venueid", "alt_venueid"}
    THEN {"p_query", "p_venueid", "p_alt", "p_dedupe"}
    ELSE IF query \in {ReviewInvitations[i] : i \in DOMAIN ReviewInvitations}
    THEN {"r_query", "r_dedupe"}
    ELSE {"d_query", "d_dedupe"}

C2_ReviewsReferenceStoredPapers ==
    \A r \in DOMAIN db.reviews : db.reviews[r].paper_id \in DOMAIN db.papers

(***************************************************************************)
(* C3.  Per-record failure isolation.                                      *)
(***************************************************************************)
\* C3: when an iteration of a stage's loop fails, the committed tables are
\* unchanged, the session is back at the committed tables, and the loop goes
\* on with the next record; a loop is left only after its last record.
C3_RecordFailureIsolated ==
    [][/\ \A loop \in LoopPcs :
            (RecordStep(loop) /\ RecordFailed) =>
                /\ db' = db
                /\ sess' = db
                /\ pc' = loop
                /\ unique' = unique
       /\ (pc \in LoopPcs /\ pc' # pc) => idx > Len(unique)]_vars

\* A record of the paper loop has just failed, papers committed before it are
\* stored and a later record is still to come.
C3_Witness ==
    /\ pc = "p_loop"
    /\ last.op = "failed"
    /\ db.papers # <<>>
    /\ idx <= Len(unique)

(***************************************************************************)
(* C4.  Strategy failure isolation.                                        *)
(***************************************************************************)
\* C4: after a query of a stage has failed, the stage is still in discovery:
\* its next strategy is about to be tried, or its candidates are about to be
\* deduplicated; the failure does not end the stage.
C4_QueryFailureKeepsDiscovering ==
    ~lastq.ok => pc \in DiscoveryPcs(lastq.q)

(***************************************************************************)
(* C5.  Skip-existing, and the decision on an existing paper.              *)
(***************************************************************************)
\* The paper a decision step looks up is stored.
DecisionFindsPaper == RecordStep("d_loop") /\ unique[idx].forum \in DOMAIN db.papers

FirstIndex(seq, id) == CHOOSE i \in 1..Len(seq) :
    seq[i].id = id /\ \A j \in 1..(i - 1) : seq[j].id # id

LastIndex(seq, id) == CHOOSE i \in 1..Len(seq) :
    seq[i].id = id /\ \A j \in (i + 1)..Len(seq) : seq[j].id # id

\* C6: once a stage has deduplicated its notes, the unique notes hold every
\* identifier of the notes exactly once, each with the last note of that
\* identifier, in the order in which the identifiers first occur in the notes.
C6_DedupeLastWinsFirstOrder ==
    pc \in LoopPcs =>
        /\ {unique[i].id : i \in 1..Len(unique)} = {notes[i].id : i \in 1..Len(notes)}
        /\ \A i, j \in 1..Len(unique) : unique[i].id = unique[j].id => i = j
        /\ \A i \in 1..Len(unique) : unique[i] = notes[LastIndex(notes, unique[i].id)]
        /\ \A i, j \in 1..Len(unique) :
              i < j => FirstIndex(notes, unique[i].id) < FirstIndex(notes, unique[j].id)

\* The notes were [A, B, A'] with A and A' of one identifier and different
\* content, and have been deduplicated.
C6_Witness ==
    /\ pc \in LoopPcs
    /\ Len(notes) = 3
    /\ notes[1].id = notes[3].id
    /\ notes[1] # notes[3]
    /\ notes[2].id # notes[1].id
    /\ Len(unique) = 2

(***************************************************************************)
(* C7.  Stage order.                                                       *)
(***************************************************************************)
\* The stage a place belongs to: 0 start-up, 1 papers, 2 reviews, 3 decisions,
\* 4 the summary and the exit.
StageOf(place) ==
    CASE place \in StartPcs -> 0
      [] place \in PaperPcs -> 1
      [] place \in ReviewPcs -> 2
      [] place \in DecisionPcs -> 3
      [] OTHER -> 4

\* C7: within a run the process moves through papers, reviews, decisions in
\* that order and never back; paper rows appear only in the paper loop, review
\* and mapping rows change only in the review loop, acceptance_status changes
\* only in the decision loop; and a stage is left for the next with nothing
\* pending in the session and, when its loop ran, after the last record.
C7_StagesInOrder ==
    [][/\ \/ StageOf(pc') = StageOf(pc)
          \/ StageOf(pc') = StageOf(pc) + 1
          \/ pc' = "exit"
          \/ pc = "exit" /\ pc' = "db_setup"
       /\ DOMAIN db'.papers # DOMAIN db.papers => pc = "p_loop"
       /\ (db'.reviews # db.reviews \/ db'.mappings # db.mappings) => pc = "r_loop"
       /\ (\E p \in DOMAIN db.papers \cap DOMAIN db'.papers :
              db'.papers[p].acceptance_status # db.papers[p].acceptance_status)
            => pc = "d_loop"
       /\ (StageOf(pc) \in {1, 2, 3} /\ StageOf(pc') = StageOf(pc) + 1) =>
            /\ sess' = db'
            /\ pc \in LoopPcs \cup {"p_venueid", "p_alt"}
            /\ pc \in LoopPcs => idx > Len(unique)]_vars

\* The decision loop is running on a store that holds papers and reviews.
C7_Witness ==
    /\ pc = "d_loop"
    /\ last.op = "updated"
    /\ db.papers # <<>>
    /\ db.reviews # <<>>

(***************************************************************************)
(* C8.  Start-up failures.                                                 *)
(***************************************************************************)
\* C8: start-up changes no row, issues no query and fetches no attachment; a
\* run that logged a start-up failure is at its exit with no query issued, no
\* attachment fetched and the store unchanged; and the paper stage is entered
\* only from a profile check that succeeded.
C8_StartupFailureAborts ==
    [][/\ pc \in StartPcs => (db' = db /\ attempted' = <<>> /\ fetched' = {})
       /\ failure' # "" =>
            (pc' = "exit" /\ db' = db /\ attempted' = <<>> /\ fetched' = {})
       /\ (pc' \in PaperPcs /\ pc \notin PaperPcs) =>
            (pc = "check_profile" /\ failure' = "")]_vars

\* A run against a store that holds papers has ended on a failed profile
\* check.
C8_Witness ==
    /\ pc = "exit"
    /\ failure = "profile"
    /\ db.papers # <<>>
    /\ attempted = <<>>

(***************************************************************************)
(* C9.  The decision stage.                                                *)
(***************************************************************************)
\* A paper row but for its acceptance_status.
OtherColumns(row) == [row EXCEPT !.acceptance_status = PyNone]

\* The step creates no row and changes no column but acceptance_status, and
\* that of no paper but the one named.
OnlyStatusOf(forum) ==
    /\ DOMAIN db'.papers = DOMAIN db.papers
    /\ db'.reviews = db.reviews
    /\ db'.mappings = db.mappings
    /\ \A p \in DOMAIN db.papers :
          /\ OtherColumns(db'.papers[p]) = OtherColumns(db.papers[p])
          /\ p # forum => db'.papers[p] = db.papers[p]

C10_PaperCreatedOnceStatusKept ==
    [][/\ \A p \in DOMAIN db.papers :
            /\ p \in DOMAIN db'.papers
            /\ db.papers[p].acceptance_status # PyNone
                  => db'.papers[p].acceptance_status # PyNone
       /\ (RecordStep("p_loop") /\ last'.op = "stored") =>
            unique[idx].id \notin DOMAIN db.papers]_vars

\* The paper stage of a later run has just found P1, which holds a decision,
\* and skipped it.
C10_Witness ==
    /\ pc = "p_loop"
    /\ last = [op |-> "skipped", stage |-> "papers", id |-> "P1"]
    /\ db.papers["P1"].acceptance_status # PyNone

(***************************************************************************)
(* C11.  Reviews and their mappings.                                       *)
(***************************************************************************)
\* C11: in the committed tables the mapping keys are exactly the pairs
\* (paper_id, review_id) of the review rows, one mapping for each review and
\* none without its review, and every mapping row has reviewer_role
\* "reviewer" and review_round 1.
C11_MappingsMatchReviews ==
    /\ DOMAIN db.mappings = {<<db.reviews[r].paper_id, r>> : r \in DOMAIN db.reviews}
    /\ Cardinality(DOMAIN db.mappings) = Cardinality(DOMAIN db.reviews)
    /\ \A m \in DOMAIN db.mappings :
          db.mappings[m] = [reviewer_role |-> Str("reviewer"), review_round |-> 1]

\* A review of the loop has just failed and was rolled back with its mapping,
\* after another review was committed with its mapping.
C11_Witness ==
    /\ pc = "r_loop"
    /\ last = [op |-> "failed", stage |-> "reviews", id |-> "R2"]
    /\ DOMAIN db.reviews = {"R1"}
    /\ DOMAIN db.mappings = {<<"P1", "R1">>}

(***************************************************************************)
(* C12.  Nothing is deleted.                                               *)
(***************************************************************************)
\* C12: no step removes a committed row: the stored paper_ids, review_ids and
\* mapping keys after a step include those before it.
C12_NoRowRemoved ==
    [][/\ DOMAIN db.papers \subseteq DOMAIN db'.papers
       /\ DOMAIN db.reviews \subseteq DOMAIN db'.reviews
       /\ DOMAIN db.mappings \subseteq DOMAIN db'.mappings]_vars

\* A review stage in which a record failed and was rolled back has returned,
\* and the papers and reviews committed before the failure are stored.
C12_Witness ==
    /\ pc = "d_query"
    /\ returned.reviews = 2
    /\ Cardinality(DOMAIN db.reviews) = 1
    /\ db.papers # <<>>

(***************************************************************************)
(* C13.  Attachments are fetched for new, flagged papers only.             *)
(***************************************************************************)
\* The raw record carries a pdf entry.
PdfFlag(note) == "pdf" \in DOMAIN note.content

\* C13: get_attachment is called for a note only in the iteration of the paper
\* loop on that note, only when the note carries a pdf entry and no paper of
\* its identifier is stored; and a paper stored from a note without a pdf
\* entry has a null submission_text.
C13_FetchOnlyFlaggedNew ==
    [][/\ \A id \in fetched' \ fetched :
            /\ RecordStep("p_loop")
            /\ unique[idx].id = id
            /\ PdfFlag(unique[idx])
            /\ id \notin DOMAIN db.papers
       /\ (RecordStep("p_loop") /\ last'.op = "stored" /\ ~PdfFlag(unique[idx])) =>
            db'.papers[unique[idx].id].submission_text = PyNone]_vars

\* P1, with a pdf entry, was fetched and stored with its file; P2, without
\* one, was stored without a fetch.
C13_Witness ==
    /\ pc = "p_loop"
    /\ fetched = {"P1"}
    /\ DOMAIN db.papers = {"P1", "P2"}
    /\ db.papers["P1"].submission_text = Str("data/pdfs/1.pdf")
    /\ db.papers["P2"].submission_text = PyNone

(***************************************************************************)
(* C14.  A failed download does not fail the paper.                        *)
(***************************************************************************)
\* C14: an iteration of the paper loop on a new note whose fields can be read
\* and in which no storage operation fails stores the paper, whatever the
\* download did: its submission_text is the path of the file or null, and the
\* loop goes on.
C14_DownloadFailureContained ==
    [][(/\ RecordStep("p_loop")
        /\ unique[idx].id \notin DOMAIN db.papers
        /\ ~PaperRaises(unique[idx])
        /\ cur'.faults = cur.faults) =>
           /\ last'.op = "stored"
           /\ db'.papers[unique[idx].id].submission_text
                 \in {PyNone, Str("data/pdfs/" \o unique[idx].number \o ".pdf")}
           /\ pc' = "p_loop"]_vars

\* The download for P1 failed: P1 was fetched and is stored with a null
\* submission_text, and the loop is at the next paper.
C14_Witness ==
    /\ pc = "p_loop"
    /\ last = [op |-> "stored", stage |-> "papers", id |-> "P1"]
    /\ "P1" \in fetched
    /\ db.papers["P1"].submission_text = PyNone
    /\ idx <= Len(unique)

(***************************************************************************)
(* C15.  Field extraction.                                                 *)
(***************************************************************************)
\* C15: reading the fields of a gathered paper or review never raises,
\* whatever the shape of its content.
C15_FieldExtractionNeverRaises ==
    /\ pc = "p_loop" => \A i \in 1..Len(unique) : ~PaperRaises(unique[i])
    /\ pc = "r_loop" => \A i \in 1..Len(unique) : ~ReviewRaises(unique[i])

(***************************************************************************)
(* C16.  The overall score.                                                *)
(***************************************************************************)
\* The text a content resolves a key to: the str under the key's "value"
\* slot, and "" when the key is absent or its value is null.
ResolvedText(content, key) ==
    IF key \in DOMAIN content /\ content[key].k = "dict" /\ content[key].value.k = "str"
    THEN content[key].value.s
    ELSE ""

\* The first non-empty of "overall assessment", "recommendation" and
\* "overall_evaluation", in that order, and "" when all three are empty.
FirstNonEmptyScore(content) ==
    IF ResolvedText(content, "overall assessment") # ""
    THEN ResolvedText(content, "overall assessment")
    ELSE IF ResolvedText(content, "recommendation") # ""
    THEN ResolvedText(content, "recommendation")
    ELSE ResolvedText(content, "overall_evaluation")

\* C16: the overall_score of every stored review is the first non-empty of the
\* three score fields of the note it was built from, in the order "overall
\* assessment", "recommendation", "overall_evaluation", and "" when none is.
C16_ScoreIsFirstNonEmpty ==
    \A r \in DOMAIN db.reviews :
        \E i \in 1..Len(unique) :
            /\ unique[i].id = r
            /\ db.reviews[r].overall_score = Str(FirstNonEmptyScore(unique[i].content))

\* A review with an empty "overall assessment" and both other fields
\* populated is stored with the "recommendation" value.
C16_Witness ==
    /\ "R2" \in DOMAIN db.reviews
    /\ db.reviews["R2"].overall_score = Str("4")
    /\ DOMAIN unique[1].content = ScoreKeys \cup {"review"}
    /\ unique[1].content["overall assessment"] = Wrap(Str(""))
    /\ unique[1].content["recommendation"] = Wrap(Str("4"))
    /\ unique[1].content["overall_evaluation"] = Wrap(Str("3"))

(***************************************************************************)
(* C17.  The counts of the summary.                                        *)
(***************************************************************************)
\* C17: the value a stage returned is at most the number of its unique notes
\* that are ingested: the papers and the reviews that have a row, and the
\* decisions whose paper is stored.
C17_CountsAreIngested ==
    /\ pc = "r_query" =>
          returned.papers
             <= Cardinality({i \in 1..Len(unique) : unique[i].id \in DOMAIN db.papers})
    /\ pc = "d_query" =>
          returned.reviews
             <= Cardinality({i \in 1..Len(unique) : unique[i].id \in DOMAIN db.reviews})
    /\ pc = "summary" =>
          returned.decisions
             <= Cardinality({i \in 1..Len(unique) : unique[i].forum \in DOMAIN db.papers})

(***************************************************************************)
(* C18.  The exit status.                                                  *)
(***************************************************************************)
\* C18: a run that has ended has exit status 0 exactly when it logged no
\* failure.
C18_ExitStatusReflectsOutcome ==
    pc = "exit" => (exit_code = "0" <=> failure = "")

(***************************************************************************)
(* C19.  Accumulation and the fallback chain.                              *)
(***************************************************************************)
\* The query a step issues, "" when it issues none.
Issued ==
    IF Len(attempted') = Len(attempted) + 1 THEN attempted'[Len(attempted')] ELSE ""

\* C19: each of the four invitation queries of the paper stage is issued in
\* turn and, when it succeeds, appends what it returned to the notes gathered
\* so far; the venueid query is issued only when the notes are empty, and the
\* alternative venueid query only when the notes are empty and the query
\* before it was the venueid query, which succeeded.
C19_AccumulateThenFallback ==
    [][/\ (pc = "p_query" /\ strat' # strat) =>
            /\ Issued = PaperInvitations[strat]
            /\ strat' = strat + 1
            /\ pc' # "p_query" <=> strat = Len(PaperInvitations)
            /\ IF lastq'.ok
               THEN notes' \in {notes, notes \o SourceNotes(PaperInvitations[strat])}
               ELSE notes' = notes
       /\ Issued = "venueid" => (pc = "p_venueid" /\ notes = <<>>)
       /\ Issued = "alt_venueid" =>
            (pc = "p_alt" /\ notes = <<>> /\ lastq = [q |-> "venueid", ok |-> TRUE])]_vars

\* The four invitation queries were issued and the notes of three of them
\* are gathered together; no fallback was queried.
C19_Witness ==
    /\ pc = "p_dedupe"
    /\ attempted = PaperInvitations
    /\ notes = <<NoteA, NoteB, NoteA2, NoteM>>

(***************************************************************************)
(* C20.  Several decisions on one paper.                                   *)
(***************************************************************************)
\* The last of the unique decisions on a paper.
LastDecisionOn(p) ==
    CHOOSE i \in 1..Len(unique) :
        unique[i].forum = p /\ \A j \in (i + 1)..Len(unique) : unique[j].forum # p

\* The acceptance_status a paper had when the run began.
StatusBefore(p) ==
    IF p \in DOMAIN prev.db.papers THEN prev.db.papers[p].acceptance_status ELSE PyNone

\* C20: when the decision stage of a run without a storage failure has
\* returned, every stored paper that decisions target has the value of the
\* last of them as its acceptance_status, and every other stored paper has the
\* acceptance_status it had before.
C20_LastDecisionWins ==
    (pc = "summary" /\ cur.clean) =>
        \A p \in DOMAIN db.papers :
            IF \E i \in 1..Len(unique) : unique[i].forum = p
            THEN db.papers[p].acceptance_status = DecisionValue(unique[LastDecisionOn(p)])
            ELSE db.papers[p].acceptance_status = StatusBefore(p)

(***************************************************************************)
(* C21.  Every run that starts its stages reaches the summary.             *)
(***************************************************************************)
\* C21: once the paper stage has begun, the run moves from each stage only to
\* the stage after it, and it reaches the summary, whatever the queries, the
\* downloads and the storage operations of the records do.
C21_StagesRunToSummary ==
    /\ [][StageOf(pc) \in {1, 2, 3} =>
            StageOf(pc') \in {StageOf(pc), StageOf(pc) + 1}]_vars
    /\ (pc = "p_query" /\ strat = 1) ~> (pc = "summary")

\* The paper stage ended early on a failed venueid query, and the run is at
\* its summary with the reviews the review stage stored after it.
C21_Witness ==
    /\ pc = "summary"
    /\ Len(attempted) > 5
    /\ attempted[5] = "venueid"
    /\ attempted[6] = "Official_Review"
    /\ db.reviews # <<>>

(***************************************************************************)
(* C22.  crawl(): a paper and its reviews in one transaction.              *)
(***************************************************************************)
\* C22: every paper crawl() has stored has a review row with its mapping; a
\* step of the loop of crawl() stores the paper of its submission only with a
\* review row and a mapping row for every review found for it, of which there
\* is at least one; it stores nothing for a submission without reviews, and
\* nothing at all when it fails.
C22_PaperWithAllReviewsOrNothing ==
    /\ [](\A p \in DOMAIN db.papers \ DOMAIN prev.db.papers :
             \E r \in DOMAIN db.reviews :
                 db.reviews[r].paper_id = p /\ <<p, r>> \in DOMAIN db.mappings)
    /\ [][pc = "c_build" =>
            /\ notes[idx].id \in DOMAIN db'.papers \ DOMAIN db.papers =>
                 /\ unique # <<>>
                 /\ \A i \in 1..Len(unique) :
                       /\ unique[i].id \in DOMAIN db'.reviews
                       /\ db'.reviews[unique[i].id].paper_id = notes[idx].id
                       /\ <<notes[idx].id, unique[i].id>> \in DOMAIN db'.mappings
            /\ unique = <<>> => db' = db
            /\ last'.op # "stored" => db' = db
            /\ DOMAIN db'.papers \subseteq DOMAIN db.papers \cup {notes[idx].id}]_vars

\* P1 was stored with its two reviews and their mappings, and a later
\* submission has failed without leaving a row.
C22_Witness ==
    /\ pc = "exit"
    /\ last.op = "failed"
    /\ "P1" \in DOMAIN db.papers \ DOMAIN prev.db.papers
    /\ {"R1", "R5"} \subseteq DOMAIN db.reviews
    /\ {<<"P1", "R1">>, <<"P1", "R5">>} \subseteq DOMAIN db.mappings
    /\ last.id \notin DOMAIN db.papers

====
